---- MODULE Spec2Model ----
(***************************************************************************)
(* Health-check programs of go-monk/from-bash-to-go.                        *)
(*                                                                          *)
(*   prog "0"  0/healthcheck.go and 0/healthcheck.sh, run against the same  *)
(*             endpoint behaviour                                           *)
(*   prog "1"  1/main.go  (Do with the fixed 2 second timeout)              *)
(*   prog "2"  2/main.go  (Do with the per-check ResponseTimeout)           *)
(*   prog "3"  3/main.go  (JSON configuration, Do returning (bool, error))  *)
(*                                                                          *)
(* Durations are counted in seconds.  The network is the environment: the   *)
(* behaviour a request meets (a scenario) is chosen when the request is     *)
(* issued.                                                                  *)
(***************************************************************************)
EXTENDS Integers, Sequences, FiniteSets, TLC

VARIABLES prog, pc, file, healthChecks, i, net, got, results, started,
          inflight, openBodies, stdout, stderr, exitCode,
          shPc, shStatus, shOut, shExit

vars == <<prog, pc, file, healthChecks, i, net, got, results, started,
          inflight, openBodies, stdout, stderr, exitCode,
          shPc, shStatus, shOut, shExit>>

(***************************************************************************)
(* Bounds and program constants                                             *)
(***************************************************************************)
\* longest configuration document (number of array elements) explored
MaxChecks == 2

StatusOK == 200
StatusMovedPermanently == 301
\* 2 * time.Second
TwoSeconds == 2
\* 10 * time.Second
TenSeconds == 10
\* time.Sleep(3 * time.Second) of Healthz3Handler
SlowDelay == 3
\* net/http follows at most 10 redirects (defaultCheckRedirect)
MaxRedirects == 10

URL1 == "http://localhost:8080/healthz"
URL2 == "http://localhost:8080/healthz2"
URL3 == "http://localhost:8080/healthz3"

(***************************************************************************)
(* The network.  A scenario says what one client.Get (or one curl) meets:   *)
(* `redirects` answers 301 with a Location header, one after the other and  *)
(* without delay, and then the final behaviour: the connection is refused,  *)
(* nothing ever answers, or `status` is answered after `delay` seconds (a   *)
(* final 301 carries no Location header, as Healthz2Handler's does).        *)
(***************************************************************************)
NoScenario == [redirects |-> 0, final |-> "none", status |-> 0, delay |-> 0]

RedirectCounts == {0, 1, MaxRedirects, MaxRedirects + 1}

Scenarios ==
    {[redirects |-> n, final |-> f, status |-> 0, delay |-> 0] :
        n \in RedirectCounts, f \in {"refused", "silent"}}
    \cup
    {[redirects |-> n, final |-> "answer", status |-> s, delay |-> d] :
        n \in RedirectCounts, s \in {StatusOK, StatusMovedPermanently},
        d \in {0, SlowDelay}}

\* the three handlers of healthz/main.go
HealthzHandler  == [redirects |-> 0, final |-> "answer", status |-> StatusOK, delay |-> 0]
Healthz2Handler == [redirects |-> 0, final |-> "answer", status |-> StatusMovedPermanently, delay |-> 0]
Healthz3Handler == [redirects |-> 0, final |-> "answer", status |-> StatusOK, delay |-> SlowDelay]

\* status of the first response a request to the scenario receives (0: none)
FirstStatus(sc) ==
    IF sc.redirects > 0 THEN StatusMovedPermanently
    ELSE IF sc.final = "answer" THEN sc.status ELSE 0

\* http.Client.deadline: only a positive Timeout sets a deadline
HasDeadlineNever(timeout) == FALSE
HasDeadline(timeout) == timeout > 0

NoResponse(n) == [kind |-> "err", status |-> 0, nreq |-> n]
Blocked(n)    == [kind |-> "hang", status |-> 0, nreq |-> n]
Response(s, n) == [kind |-> "resp", status |-> s, nreq |-> n]

\* client.Get(url) of an http.Client{Timeout: timeout}: the set of possible
\* results.  kind "err": Get returned an error; "resp": it returned a
\* response with that status; "hang": it never returns.  nreq counts the
\* GET requests sent.  The default client follows redirects that carry a
\* Location header and gives up after MaxRedirects of them.
ClientGet(url, timeout, sc) ==
    IF url = "" THEN {NoResponse(0)}                \* unsupported protocol scheme ""
    ELSE IF sc.redirects > MaxRedirects THEN {NoResponse(MaxRedirects + 1)}
    ELSE LET n == sc.redirects + 1 IN
         CASE sc.final = "refused" -> {NoResponse(n)}
           [] sc.final = "silent" ->
                IF HasDeadline(timeout) THEN {NoResponse(n)} ELSE {Blocked(n)}
           [] OTHER ->
                IF HasDeadline(timeout) /\ sc.delay > timeout THEN {NoResponse(n)}
                ELSE IF HasDeadline(timeout) /\ sc.delay = timeout
                     THEN {NoResponse(n), Response(sc.status, n)}
                ELSE {Response(sc.status, n)}

\* STATUS=$(curl -s -o /dev/null -w "%{http_code}" -m 2 $URL): curl does not
\* follow redirects (no -L) and writes 000 when it got no response
Curl(maxTime, sc) ==
    IF sc.redirects > 0 THEN {StatusMovedPermanently}
    ELSE CASE sc.final = "refused" -> {0}
           [] sc.final = "silent" -> {0}
           [] OTHER -> IF sc.delay > maxTime THEN {0}
                       ELSE IF sc.delay = maxTime THEN {0, sc.status}
                       ELSE {sc.status}

(***************************************************************************)
(* HealthCheck values and the configuration file of 3/main.go               *)
(***************************************************************************)
\* {URL: ..., HealthyStatusCode: ...} of 1/main.go
HealthCheck1(url, code) == [URL |-> url, HealthyStatusCode |-> code]

\* {URL: ..., ResponseTimeout: ..., HealthyStatusCode: ...} of 2/main.go and 3/main.go
HealthCheck(url, timeout, code) ==
    [URL |-> url, ResponseTimeout |-> timeout, HealthyStatusCode |-> code]

\* healthChecks literal of 1/main.go
HealthChecks1 ==
    <<HealthCheck1(URL1, StatusOK), HealthCheck1(URL2, StatusMovedPermanently)>>

\* healthChecks literal of 2/main.go
HealthChecks2 ==
    <<HealthCheck(URL1, TwoSeconds, StatusOK),
      HealthCheck(URL2, TwoSeconds, StatusMovedPermanently),
      HealthCheck(URL3, TenSeconds, StatusOK)>>

\* One element of the JSON array: the keys the object has, those of them
\* whose value has the wrong JSON type for the field (a number for URL, a
\* string such as "2s" for ResponseTimeout), and the values of the others.
Element(keys, bad, url, timeout, code) ==
    [keys |-> keys, bad |-> bad, URL |-> url, ResponseTimeout |-> timeout,
     HealthyStatusCode |-> code]

AllKeys == {"URL", "ResponseTimeout", "HealthyStatusCode"}

Elements ==
    { Element(AllKeys, {}, URL1, TwoSeconds, StatusOK),
      Element({"URL", "HealthyStatusCode"}, {}, URL2, 0, StatusMovedPermanently),
      Element(AllKeys, {}, URL3, TenSeconds, StatusOK),
      Element(AllKeys, {}, URL3, SlowDelay, StatusOK),
      Element(AllKeys, {}, URL3, -1, StatusOK),
      Element(AllKeys \cup {"Comment"}, {}, URL2, TwoSeconds, StatusMovedPermanently),
      Element({"ResponseTimeout", "HealthyStatusCode"}, {}, "", TwoSeconds, StatusOK),
      Element({"URL", "ResponseTimeout"}, {}, URL1, TwoSeconds, 0),
      Element(AllKeys, {"URL"}, "", TwoSeconds, StatusOK),
      Element(AllKeys, {"ResponseTimeout"}, URL1, 0, StatusOK) }

NoFile == [kind |-> "none", elems |-> <<>>]

\* What healthchecks.json can be: absent, not JSON, a JSON object, or a
\* JSON array of at most MaxChecks elements.
Files ==
    {[kind |-> k, elems |-> <<>>] : k \in {"missing", "malformed", "object"}}
    \cup
    {[kind |-> "array", elems |-> es] :
        es \in UNION {[1..n -> Elements] : n \in 0..MaxChecks}}

\* json.Unmarshal into one HealthCheck: a key that is present and well typed
\* sets its field, every other field keeps its zero value
DecodeElement(e) ==
    [URL |-> IF "URL" \in e.keys \ e.bad THEN e.URL ELSE "",
     ResponseTimeout |->
        IF "ResponseTimeout" \in e.keys \ e.bad THEN e.ResponseTimeout ELSE 0,
     HealthyStatusCode |->
        IF "HealthyStatusCode" \in e.keys \ e.bad THEN e.HealthyStatusCode ELSE 0]

\* json.Unmarshal(data, &hs): a syntax error or a non-array document decodes
\* nothing; a wrongly typed value is skipped, decoding goes on and the error
\* is reported at the end
Unmarshal(f) ==
    IF f.kind # "array" THEN [err |-> TRUE, hs |-> <<>>]
    ELSE [err |-> \E k \in 1..Len(f.elems) : f.elems[k].bad # {},
          hs  |-> [k \in 1..Len(f.elems) |-> DecodeElement(f.elems[k])]]

readConfigIgnoringDecodeError(f) ==
    IF f.kind = "missing" THEN [err |-> TRUE, hs |-> <<>>]
    ELSE [err |-> FALSE, hs |-> Unmarshal(f).hs]

readConfig(f) ==
    IF f.kind = "missing" THEN [err |-> TRUE, hs |-> <<>>]     \* os.ReadFile failed
    ELSE LET u == Unmarshal(f) IN
         IF u.err THEN [err |-> TRUE, hs |-> <<>>]
         ELSE [err |-> FALSE, hs |-> u.hs]

(***************************************************************************)
(* HealthCheck.Do.  An outcome records what Do returned (ok, and err: the   *)
(* returned error is non-nil), whether it left a response body open, and    *)
(* what its client.Get produced.                                            *)
(***************************************************************************)
Outcome(ok, err, open, r) == [ok |-> ok, err |-> err, open |-> open, got |-> r]

Do1AnyResponse(h, sc) ==
    {Outcome(r.kind = "resp", FALSE, FALSE, r) : r \in ClientGet(h.URL, TwoSeconds, sc)}

\* 1/main.go
Do1(h, sc) ==
    { IF r.kind # "resp" THEN Outcome(FALSE, FALSE, FALSE, r)
      ELSE \* defer resp.Body.Close()
           IF r.status # h.HealthyStatusCode THEN Outcome(FALSE, FALSE, FALSE, r)
           ELSE Outcome(TRUE, FALSE, FALSE, r)
      : r \in ClientGet(h.URL, TwoSeconds, sc) }

\* 2/main.go
Do2(h, sc) ==
    { IF r.kind # "resp" THEN Outcome(FALSE, FALSE, FALSE, r)
      ELSE \* defer resp.Body.Close()
           IF r.status # h.HealthyStatusCode THEN Outcome(FALSE, FALSE, FALSE, r)
           ELSE Outcome(TRUE, FALSE, FALSE, r)
      : r \in ClientGet(h.URL, h.ResponseTimeout, sc) }

Do3ErrorOnMismatch(h, sc) ==
    { IF r.kind # "resp" THEN Outcome(FALSE, TRUE, FALSE, r)
      ELSE IF r.status # h.HealthyStatusCode THEN Outcome(FALSE, TRUE, TRUE, r)
           ELSE Outcome(TRUE, FALSE, TRUE, r)
      : r \in ClientGet(h.URL, h.ResponseTimeout, sc) }

\* 3/main.go: no resp.Body.Close(); on a mismatch the err returned is the nil
\* err of client.Get
Do3(h, sc) ==
    { IF r.kind # "resp" THEN Outcome(FALSE, TRUE, FALSE, r)
      ELSE IF r.status # h.HealthyStatusCode THEN Outcome(FALSE, FALSE, TRUE, r)
           ELSE Outcome(TRUE, FALSE, TRUE, r)
      : r \in ClientGet(h.URL, h.ResponseTimeout, sc) }

Do(p, h, sc) ==
    CASE p = "1" -> Do1(h, sc)
      [] p = "2" -> Do2(h, sc)
      [] OTHER   -> Do3(h, sc)

\* the Timeout of the http.Client that Do builds
ClientTimeout(p, h) == IF p = "1" THEN TwoSeconds ELSE h.ResponseTimeout

Line(url, text, cause) == [url |-> url, text |-> text, cause |-> cause]

ReportAlways(p, h, d) == <<Line(h.URL, "is unhealthy", "")>>

\* body of the loop of main: what is printed for check h with outcome d
Report(p, h, d) ==
    IF d.ok THEN <<>>
    ELSE IF p = "3"
         THEN <<Line(h.URL, "is unhealthy", IF d.err THEN "error" ELSE "<nil>")>>
         ELSE <<Line(h.URL, "is unhealthy", "")>>

AdvanceStopOnUnhealthy(k, n, ok) == IF ok THEN k + 1 ELSE n + 1

\* for _, h := range healthChecks: the next index, whatever the outcome
Advance(k, n, ok) == k + 1

(***************************************************************************)
(* State machine                                                            *)
(***************************************************************************)
NotYet == [kind |-> "none", status |-> 0, nreq |-> 0]

Init ==
    /\ prog \in {"0", "1", "2", "3"}
    /\ pc = IF prog \in {"0", "3"} THEN "init" ELSE "loop"
    /\ file = NoFile
    /\ healthChecks = CASE prog = "1" -> HealthChecks1
                        [] prog = "2" -> HealthChecks2
                        [] OTHER -> <<>>
    /\ i = 1
    /\ net \in IF prog = "0" THEN Scenarios ELSE {NoScenario}
    /\ got = NotYet
    /\ results = <<>>
    /\ started = <<>>
    /\ inflight = 0
    /\ openBodies = {}
    /\ stdout = <<>>
    /\ stderr = <<>>
    /\ exitCode = -1
    /\ shPc = IF prog = "0" THEN "init" ELSE "none"
    /\ shStatus = -1
    /\ shOut = <<>>
    /\ shExit = -1

shVars == <<shPc, shStatus, shOut, shExit>>

\* 0/healthcheck.go: main
Healthcheck0Go ==
    /\ prog = "0" /\ pc = "init"
    /\ \E r \in ClientGet(URL1, TwoSeconds, net) :
          /\ got' = r
          /\ IF r.kind = "hang"
             THEN /\ pc' = "blocked"
                  /\ UNCHANGED <<stdout, exitCode, openBodies>>
             ELSE /\ pc' = "done"
                  /\ openBodies' = IF r.kind = "resp" THEN {1} ELSE {}
                  /\ IF r.kind = "err" \/ r.status # 200
                     THEN /\ stdout' = <<Line("", "Service unhealthy!", "")>>
                          /\ exitCode' = 1
                     ELSE /\ stdout' = stdout
                          /\ exitCode' = 0
    /\ UNCHANGED <<prog, file, healthChecks, i, net, results, started,
                   inflight, stderr>>
    /\ UNCHANGED shVars

\* 0/healthcheck.sh
Healthcheck0Sh ==
    /\ prog = "0" /\ shPc = "init"
    /\ \E s \in Curl(TwoSeconds, net) :
          /\ shStatus' = s
          /\ IF s # 200
             THEN /\ shOut' = <<Line("", "Service unhealthy!", "")>>
                  /\ shExit' = 1
             ELSE /\ shOut' = shOut
                  /\ shExit' = 0
    /\ shPc' = "done"
    /\ UNCHANGED <<prog, pc, file, healthChecks, i, net, got, results, started,
                   inflight, openBodies, stdout, stderr, exitCode>>

\* 3/main.go: main up to the loop
MainReadConfig ==
    /\ prog = "3" /\ pc = "init"
    /\ \E f \in Files :
          /\ file' = f
          /\ LET c == readConfig(f) IN
             IF c.err
             THEN /\ stderr' = <<Line("", "x:", "error")>>
                  /\ exitCode' = 1
                  /\ pc' = "done"
                  /\ healthChecks' = <<>>
             ELSE /\ healthChecks' = c.hs
                  /\ pc' = "loop"
                  /\ UNCHANGED <<stderr, exitCode>>
    /\ UNCHANGED <<prog, i, net, got, results, started, inflight, openBodies,
                   stdout>>
    /\ UNCHANGED shVars

\* main calls h.Do() for the next check; Do issues client.Get and waits
DoCall ==
    /\ prog \in {"1", "2", "3"} /\ pc = "loop"
    /\ i <= Len(healthChecks)
    /\ \E sc \in Scenarios : net' = sc
    /\ started' = Append(started, i)
    /\ inflight' = inflight + 1
    /\ pc' = "wait"
    /\ UNCHANGED <<prog, file, healthChecks, i, got, results, openBodies,
                   stdout, stderr, exitCode>>
    /\ UNCHANGED shVars

\* client.Get returns, Do returns and main reports the check
DoReturn ==
    /\ pc = "wait"
    /\ LET h == healthChecks[i] IN
       \E d \in Do(prog, h, net) :
          /\ got' = d.got
          /\ IF d.got.kind = "hang"
             THEN /\ pc' = "blocked"
                  /\ UNCHANGED <<i, results, inflight, openBodies, stdout>>
             ELSE /\ pc' = "loop"
                  /\ inflight' = inflight - 1
                  /\ results' = Append(results, [ok |-> d.ok, err |-> d.err])
                  /\ openBodies' = IF d.open THEN openBodies \cup {i} ELSE openBodies
                  /\ stdout' = stdout \o Report(prog, h, d)
                  /\ i' = Advance(i, Len(healthChecks), d.ok)
    /\ UNCHANGED <<prog, file, healthChecks, net, started, stderr, exitCode>>
    /\ UNCHANGED shVars

\* the loop is over and main returns
MainReturn ==
    /\ prog \in {"1", "2", "3"} /\ pc = "loop"
    /\ i > Len(healthChecks)
    /\ pc' = "done"
    /\ exitCode' = 0
    /\ UNCHANGED <<prog, file, healthChecks, i, net, got, results, started,
                   inflight, openBodies, stdout, stderr>>
    /\ UNCHANGED shVars

Next ==
    \/ Healthcheck0Go
    \/ Healthcheck0Sh
    \/ MainReadConfig
    \/ DoCall
    \/ DoReturn
    \/ MainReturn

Spec == Init /\ [][Next]_vars

(***************************************************************************)
(* Properties                                                               *)
(***************************************************************************)
Multi == prog \in {"1", "2", "3"}

\* a Do has returned and nothing was issued since: net, got and the last
\* entry of results belong to check Len(results)
Returned == Multi /\ pc \in {"loop", "done"} /\ Len(results) > 0

LastCheck == healthChecks[Len(results)]
LastResult == results[Len(results)]

\* the last check's URL names a target, and that target answers with the
\* status the check expects, directly
AnswersExpected ==
    /\ LastCheck.URL # ""
    /\ net.redirects = 0
    /\ net.final = "answer"
    /\ net.status = LastCheck.HealthyStatusCode

\* C1: in all three variants Do reports healthy exactly when client.Get
\* returned a response whose status equals HealthyStatusCode; a directly
\* answered status that differs gives unhealthy, and a refused connection
\* gives unhealthy whatever HealthyStatusCode is.
C1_HealthyIffStatusMatches ==
    Returned =>
       /\ LastResult.ok <=>
             (got.kind = "resp" /\ got.status = LastCheck.HealthyStatusCode)
       /\ (net.redirects = 0 /\ net.final = "answer"
             /\ net.status # LastCheck.HealthyStatusCode) => ~LastResult.ok
       /\ net.final = "refused" => ~LastResult.ok

C1_Witness ==
    /\ Returned /\ prog = "3"
    /\ net = Healthz2Handler
    /\ LastCheck.HealthyStatusCode = StatusMovedPermanently
    /\ LastResult.ok

\* C2: whenever a Do of any variant has returned, no response body it
\* obtained is still open (so none is open when the next check starts or
\* when the process ends).
C2_BodiesClosedOnReturn ==
    (Multi /\ pc \in {"loop", "wait", "done"}) => openBodies = {}

LacksRequiredKey(e) == ~({"URL", "HealthyStatusCode"} \subseteq e.keys)

\* C3: readConfig fails for every document with an array element that lacks
\* the key URL or the key HealthyStatusCode, so that no check with a field
\* zeroed by a missing key is ever handed to Do.
C3_MissingRequiredKeyFails ==
    (/\ prog = "3" /\ pc # "init" /\ file.kind = "array"
     /\ \E k \in 1..Len(file.elems) : LacksRequiredKey(file.elems[k]))
    => (pc = "done" /\ exitCode = 1 /\ started = <<>>)

\* C4: a Do that obtained a response sent exactly one GET and compared the
\* status of the first response; a check expecting 301 is healthy against an
\* endpoint answering 301, with or without a Location header.
C4_FirstResponseCompared ==
    (Returned /\ LastCheck.URL # "" /\ got.kind = "resp") =>
       /\ got.nreq = 1
       /\ got.status = FirstStatus(net)
       /\ (/\ FirstStatus(net) = StatusMovedPermanently
           /\ LastCheck.HealthyStatusCode = StatusMovedPermanently
           /\ net.final = "answer" /\ net.delay = 0
           /\ net.redirects <= 1) => LastResult.ok

\* C5 as stated: against an endpoint that answers the expected status after
\* delay d, Do is unhealthy when the timeout is nonzero and smaller than d,
\* and healthy when the timeout is zero or greater than d.
C5_NonzeroTimeoutSmallerThanDelay ==
    (Returned /\ AnswersExpected) =>
       LET t == ClientTimeout(prog, LastCheck)
           d == net.delay
       IN /\ (t # 0 /\ t < d) => ~LastResult.ok
          /\ (t = 0 \/ t > d) => LastResult.ok

\* C5 (amended): against an endpoint that answers the expected status after
\* delay d, Do is unhealthy when the timeout is positive and smaller than d,
\* and healthy when the timeout is zero or negative (no deadline) or greater
\* than d; with the fixed 2 second timeout the 3 second endpoint is
\* unhealthy, with a 10 second timeout it is healthy.
C5_PositiveTimeoutSmallerThanDelay ==
    (Returned /\ AnswersExpected) =>
       LET t == ClientTimeout(prog, LastCheck)
           d == net.delay
       IN /\ (t > 0 /\ t < d) => ~LastResult.ok
          /\ (t <= 0 \/ t > d) => LastResult.ok
          /\ (prog = "1" /\ d = SlowDelay) => ~LastResult.ok
          /\ (prog # "1" /\ t = TenSeconds /\ d = SlowDelay) => LastResult.ok

C5_Witness ==
    /\ Returned /\ AnswersExpected
    /\ net = Healthz3Handler
    /\ ClientTimeout(prog, LastCheck) = TwoSeconds
    /\ ~LastResult.ok

\* C6: the checks are evaluated one at a time in list order, each exactly
\* once: check k+1 is started only after check k returned, at most one
\* request is in flight, and when main returns every check of the list has
\* been evaluated, whatever the outcomes were.
C6_SequentialEveryCheckOnce ==
    Multi =>
       /\ inflight \in {0, 1}
       /\ inflight = 1 <=> pc \in {"wait", "blocked"}
       /\ \A k \in 1..Len(started) : started[k] = k
       /\ Len(started) = Len(results) + inflight
       /\ Len(started) <= Len(healthChecks)
       /\ pc = "done" => Len(results) = Len(healthChecks)

C6_Witness ==
    /\ Multi /\ pc = "done"
    /\ Len(results) >= 2
    /\ ~results[1].ok
    /\ results[2].ok

LoadFails(f) ==
    \/ f.kind \in {"missing", "malformed", "object"}
    \/ \E k \in 1..Len(f.elems) : f.elems[k].bad # {}

\* C7: when healthchecks.json is missing, is not JSON or has a value of the
\* wrong shape, main writes one diagnostic to standard error and exits with
\* code 1 with no check loaded and no Do call made; otherwise the checks
\* are the array's elements in document order.
C7_LoadFailureAbortsBeforeAnyCheck ==
    (prog = "3" /\ pc # "init") =>
       IF LoadFails(file)
       THEN /\ pc = "done" /\ exitCode = 1
            /\ Len(stderr) = 1 /\ stdout = <<>>
            /\ healthChecks = <<>>
            /\ started = <<>> /\ results = <<>> /\ got = NotYet
       ELSE /\ stderr = <<>>
            /\ Len(healthChecks) = Len(file.elems)
            /\ \A k \in 1..Len(file.elems) :
                  LET e == file.elems[k]
                      h == healthChecks[k]
                  IN /\ "URL" \in e.keys => h.URL = e.URL
                     /\ "ResponseTimeout" \in e.keys =>
                           h.ResponseTimeout = e.ResponseTimeout
                     /\ "HealthyStatusCode" \in e.keys =>
                           h.HealthyStatusCode = e.HealthyStatusCode

C7_Witness ==
    /\ prog = "3" /\ pc = "done" /\ exitCode = 1
    /\ file.kind = "array" /\ Len(file.elems) = 2
    /\ file.elems[1].bad = {} /\ file.elems[2].bad # {}

RECURSIVE UnhealthyURLs(_)
UnhealthyURLs(k) ==
    IF k = 0 THEN <<>>
    ELSE UnhealthyURLs(k - 1)
         \o (IF results[k].ok THEN <<>> ELSE <<healthChecks[k].URL>>)

ListAvailable == Multi /\ pc # "init" /\ stderr = <<>>

\* C8: once the check list is available, main ends with exit code 0 whatever
\* the outcomes, and standard output holds exactly one line per unhealthy
\* check, naming its URL, in evaluation order; main fails to end only while
\* a request without deadline waits for an endpoint that never answers.
C8_ExitZeroOneLinePerUnhealthy ==
    ListAvailable =>
       /\ exitCode \in {-1, 0}
       /\ pc = "done" => exitCode = 0
       /\ Len(stdout) = Len(UnhealthyURLs(Len(results)))
       /\ \A k \in 1..Len(stdout) :
             /\ stdout[k].url = UnhealthyURLs(Len(results))[k]
             /\ stdout[k].text = "is unhealthy"
       /\ pc = "blocked" =>
             (net.final = "silent" /\ ClientTimeout(prog, healthChecks[i]) <= 0)

C8_Witness ==
    /\ ListAvailable /\ pc = "done" /\ exitCode = 0
    /\ Len(results) >= 2
    /\ Len(stdout) = 1

\* C9: 0/healthcheck.go exits 1 with the message exactly when the GET
\* failed or the endpoint answered a status other than 200, and the Go
\* program and the Bash script agree on exit code and message.
C9_GoAndBashAgree ==
    (prog = "0" /\ pc = "done" /\ shPc = "done") =>
       /\ exitCode = 1 <=> FirstStatus(net) # StatusOK \/ net.delay > TwoSeconds
       /\ exitCode = shExit
       /\ stdout = shOut

\* C10: Do of 3/main.go returns (true, nil) when the status matches,
\* (false, error) when client.Get failed and (false, nil) when a response
\* with another status arrived; the error is non-nil exactly when no
\* response was obtained, and the line reporting a mismatch shows a nil
\* cause.
C10_ThreeResults ==
    (Returned /\ prog = "3") =>
       /\ \/ /\ LastResult.ok /\ ~LastResult.err
             /\ got.kind = "resp" /\ got.status = LastCheck.HealthyStatusCode
          \/ /\ ~LastResult.ok /\ LastResult.err
             /\ got.kind = "err"
          \/ /\ ~LastResult.ok /\ ~LastResult.err
             /\ got.kind = "resp" /\ got.status # LastCheck.HealthyStatusCode
       /\ LastResult.err <=> got.kind # "resp"
       /\ ~LastResult.ok =>
             stdout[Len(stdout)].cause = IF got.kind = "resp" THEN "<nil>" ELSE "error"

C10_Witness ==
    /\ Returned /\ prog = "3"
    /\ net = HealthzHandler
    /\ ~LastResult.ok /\ ~LastResult.err
    /\ stdout[Len(stdout)].cause = "<nil>"

====
